---- MODULE Spec2Model ----
(***************************************************************************)
(* Model of the Nethunter installer's main(): one sequential run of the    *)
(* installation, statement by statement, with every adb, fastboot,         *)
(* download and console call returning a nondeterministic result.          *)
(* The working directory (files) survives from one run to the next.        *)
(***************************************************************************)
EXTENDS Integers, Sequences, FiniteSets, TLC

VARIABLES pc, code, exitStatus, goos, runs, files, log,
          status, product, unlocked, zip, twrp, oxygenrecovery, factory

vars == <<pc, code, exitStatus, goos, runs, files, log,
          status, product, unlocked, zip, twrp, oxygenrecovery, factory>>

env    == <<goos, runs, files>>
locals == <<status, product, unlocked>>
paths  == <<zip, twrp, oxygenrecovery, factory>>

\* ---------------------------------------------------------------- bounds
\* Number of times the operator invokes the tool in the same directory.
MaxRuns == 2

\* ------------------------------------------------------------ exit codes
SuccessBase               == 2^5 + 0
SuccessUserAbort          == 2^5 + 1
SuccessBootloaderUnlocked == 2^5 + 2
Success                   == 0

ErrorBase      == 2^6 + 0
ErrorPrereqs   == 2^6 + 1
ErrorUserInput == 2^6 + 2
ErrorUsbPerms  == 2^6 + 3
ErrorAdb       == 2^6 + 4
ErrorFastboot  == 2^6 + 5
ErrorRemote    == 2^6 + 6
ErrorTWRP      == 2^6 + 7

\* Exit status of a Go process that dies of an unrecovered panic.
PanicExitStatus == 2
\* No exit code yet.
NoCode == -1

\* --------------------------------------------------------- device status
NoDeviceFound      == "NoDeviceFound"
DeviceUnauthorized == "DeviceUnauthorized"
NoUsbPerms         == "NoUsbPerms"
DeviceConnected    == "DeviceConnected"

AdbStatuses      == {NoDeviceFound, DeviceUnauthorized, NoUsbPerms, DeviceConnected}
FastbootStatuses == {NoDeviceFound, NoUsbPerms, DeviceConnected}

\* ------------------------------------------------------------- artifacts
TWRPEndpoint      == "https://dl.twrp.me"
TWRPVersionPrefix == "twrp-3.1.1-1-"
TWRPExtension     == ".img"

genTWRPDeviceUrl(device) ==
    TWRPEndpoint \o "/" \o device \o "/" \o TWRPVersionPrefix \o device \o TWRPExtension

\* Filename of the request for genTWRPDeviceUrl(device): its last path segment.
TWRPFilename(device) == TWRPVersionPrefix \o device \o TWRPExtension

NethunterFilename      == "nethunter.zip"
OxygenRecoveryFilename == "oxygen-recovery.img"
FactoryFilename        == "oxygen-factory.zip"

\* Product strings fastboot getProduct() may return.
Products == {"QC_Reference_Phone", "cheeseburger"}

AllFilenames == {NethunterFilename, OxygenRecoveryFilename, FactoryFilename}
                \cup {TWRPFilename(d) : d \in Products}

\* Console lines the operator may type at the consent prompt.
Lines == {"yes", "no", "", "y", "YES", "yes "}

GOOSes == {"linux", "windows"}

\* ------------------------------------------------------------ call trace
Entry(op, arg, ret, ok) == [op |-> op, arg |-> arg, ret |-> ret, ok |-> ok]
Call(op, arg, ret, ok)  == log' = Append(log, Entry(op, arg, ret, ok))

\* Variant: exit() notes the code but control returns to the statement.
Exit_ReturnsToCaller(c) == pc' = pc /\ code' = c

\* exit(code): the exit routine is entered with the code.
Exit(c) == pc' = "exit" /\ code' = c

Init ==
    /\ pc = "main"
    /\ code = NoCode
    /\ exitStatus = NoCode
    /\ goos \in GOOSes
    /\ runs = 1
    /\ files \in SUBSET AllFilenames
    /\ log = <<>>
    /\ status = ""
    /\ product = ""
    /\ unlocked = FALSE
    /\ zip = ""
    /\ twrp = ""
    /\ oxygenrecovery = ""
    /\ factory = ""

\* flag.Parse and the --version path.
ParseFlags ==
    /\ pc = "main"
    /\ \E versionFlag \in BOOLEAN :
         IF versionFlag THEN Exit(Success) ELSE pc' = "executable" /\ code' = code
    /\ UNCHANGED <<exitStatus, env, log, locals, paths>>

\* myPath, err := os.Executable(); panic(err) on error.
Executable ==
    /\ pc = "executable"
    /\ \E err \in BOOLEAN :
         IF err THEN pc' = "done" /\ exitStatus' = PanicExitStatus
                ELSE pc' = "setenv" /\ exitStatus' = exitStatus
    /\ UNCHANGED <<code, env, log, locals, paths>>

Setenv ==
    /\ pc = "setenv"
    /\ \E err \in BOOLEAN :
         IF err THEN Exit(ErrorPrereqs) ELSE pc' = "chdir" /\ code' = code
    /\ UNCHANGED <<exitStatus, env, log, locals, paths>>

\* A failing os.Chdir only prints a warning.
Chdir ==
    /\ pc = "chdir"
    /\ pc' = "consent"
    /\ UNCHANGED <<code, exitStatus, env, log, locals, paths>>

\* Variant: only the line "no" declines.
ConsentGiven_OnlyNoDeclines(line) == line # "no"

ConsentGiven(line) == "yes" = line

AwaitUserConsent ==
    /\ pc = "consent"
    /\ \E err \in BOOLEAN, line \in Lines :
         /\ Call("reader.ReadLine", "consent", IF err THEN "" ELSE line, ~err)
         /\ IF err THEN Exit(ErrorUserInput)
            ELSE IF ~ConsentGiven(line) THEN Exit(SuccessUserAbort)
            ELSE pc' = "verifyAdbTool" /\ code' = code
    /\ UNCHANGED <<exitStatus, env, locals, paths>>

\* Verifying installer tools: adb.Status() must be callable at all.
VerifyAdbTool ==
    /\ pc = "verifyAdbTool"
    /\ \E err \in BOOLEAN :
         /\ Call("adb.Status", "", "", ~err)
         /\ IF err THEN Exit(ErrorPrereqs) ELSE pc' = "verifyFastbootTool" /\ code' = code
    /\ UNCHANGED <<exitStatus, env, locals, paths>>

VerifyFastbootTool ==
    /\ pc = "verifyFastbootTool"
    /\ \E err \in BOOLEAN :
         /\ Call("fastboot.Status", "", "", ~err)
         /\ IF err THEN Exit(ErrorPrereqs) ELSE pc' = "detect" /\ code' = code
    /\ UNCHANGED <<exitStatus, env, locals, paths>>

\* Variant: every status but a connected fastboot device takes the adb path.
InAdbMode_UnlessConnected(st) == st # DeviceConnected

\* if status == android.NoDeviceFound: the device is taken to be in adb mode.
InAdbMode(st) == st = NoDeviceFound

\* status, _ := fastboot.Status(): the error is discarded.
DetectDeviceMode ==
    /\ pc = "detect"
    /\ \E err \in BOOLEAN, st \in FastbootStatuses :
         /\ Call("fastboot.Status", "detect", st, ~err)
         /\ status' = st
         /\ pc' = IF InAdbMode(st) THEN "verifyAdb" ELSE "verifyFastboot"
    /\ UNCHANGED <<code, exitStatus, env, product, unlocked, paths>>

\* The exit code verifyAdbStatusOrAbort leaves with, NoCode when it returns.
AdbStatusVerdict(st, err) ==
    IF err THEN ErrorAdb
    ELSE IF st = NoDeviceFound \/ st = DeviceUnauthorized THEN ErrorAdb
    ELSE IF st = NoUsbPerms THEN ErrorUsbPerms
    ELSE NoCode

verifyAdbStatusOrAbort ==
    /\ pc = "verifyAdb"
    /\ \E err \in BOOLEAN, st \in AdbStatuses :
         /\ Call("adb.Status", "verify", st, ~err)
         /\ IF AdbStatusVerdict(st, err) # NoCode
               THEN Exit(AdbStatusVerdict(st, err))
               ELSE pc' = "rebootBootloader" /\ code' = code
    /\ UNCHANGED <<exitStatus, env, locals, paths>>

RebootToBootloader ==
    /\ pc = "rebootBootloader"
    /\ \E err \in BOOLEAN :
         /\ Call("adb.Reboot", "bootloader", "", ~err)
         /\ IF err THEN Exit(ErrorAdb) ELSE pc' = "sleep7" /\ code' = code
    /\ UNCHANGED <<exitStatus, env, locals, paths>>

\* time.Sleep(7000 * time.Millisecond)
GraceWait ==
    /\ pc = "sleep7"
    /\ Call("time.Sleep", "7000", "", TRUE)
    /\ pc' = "reprobe"
    /\ UNCHANGED <<code, exitStatus, env, locals, paths>>

\* Variant: the error of the re-probe is not looked at.
RebootFailed_ErrIgnored(st, err) == st = NoDeviceFound

\* err != nil || status == android.NoDeviceFound
RebootFailed(st, err) == err \/ st = NoDeviceFound

Reprobe ==
    /\ pc = "reprobe"
    /\ \E err \in BOOLEAN, st \in FastbootStatuses :
         /\ Call("fastboot.Status", "reprobe", st, ~err)
         /\ status' = st
         /\ IF RebootFailed(st, err) THEN Exit(ErrorAdb)
            ELSE pc' = "verifyFastboot" /\ code' = code
    /\ UNCHANGED <<exitStatus, env, product, unlocked, paths>>

\* Variant: missing USB permissions are not looked for.
FastbootStatusVerdict_PermsIgnored(st, err) ==
    IF err THEN ErrorFastboot
    ELSE IF st = NoDeviceFound THEN ErrorFastboot
    ELSE NoCode

\* The exit code verifyFastbootStatusOrAbort leaves with, NoCode when it returns.
FastbootStatusVerdict(st, err) ==
    IF err THEN ErrorFastboot
    ELSE IF st = NoDeviceFound THEN ErrorFastboot
    ELSE IF st = NoUsbPerms THEN ErrorUsbPerms
    ELSE NoCode

verifyFastbootStatusOrAbort ==
    /\ pc = "verifyFastboot"
    /\ \E err \in BOOLEAN, st \in FastbootStatuses :
         /\ Call("fastboot.Status", "verify", st, ~err)
         /\ IF FastbootStatusVerdict(st, err) # NoCode
               THEN Exit(FastbootStatusVerdict(st, err))
               ELSE pc' = "getProduct" /\ code' = code
    /\ UNCHANGED <<exitStatus, env, locals, paths>>

\* if "QC_Reference_Phone" == product { product := "cheeseburger" }
\* The := declares a new variable inside the block; the product of the
\* enclosing scope keeps the value GetProduct returned.
Canonical(p) == IF "QC_Reference_Phone" = p THEN p ELSE p

IdentifyDevice ==
    /\ pc = "getProduct"
    /\ \E err \in BOOLEAN, p \in Products :
         /\ Call("fastboot.GetProduct", "", IF err THEN "" ELSE p, ~err)
         /\ IF err THEN Exit(ErrorFastboot) /\ product' = product
            ELSE pc' = "unlocked" /\ code' = code /\ product' = Canonical(p)
    /\ UNCHANGED <<exitStatus, env, status, unlocked, paths>>

\* Variants: the lock state is not consulted.
NeedsUnlock_Never(u) == FALSE

NeedsUnlock_Always(u) == TRUE

\* if !unlocked
NeedsUnlock(u) == ~u

\* The boolean fastboot.Unlocked() hands back: the lock state it read, and
\* with an error whatever the client returns beside it (false by Go's habit
\* of returning the zero value, but the client decides).
UnlockedResults(err) == BOOLEAN

\* unlocked, err := fastboot.Unlocked(); an error only prints a warning.
QueryUnlocked ==
    /\ pc = "unlocked"
    /\ \E err \in BOOLEAN : \E u \in UnlockedResults(err) :
         /\ Call("fastboot.Unlocked", "", IF u THEN "unlocked" ELSE "locked", ~err)
         /\ unlocked' = u
         /\ pc' = IF NeedsUnlock(u) THEN "unlock" ELSE "reqNethunter"
    /\ UNCHANGED <<code, exitStatus, env, status, product, paths>>

Unlock ==
    /\ pc = "unlock"
    /\ \E err \in BOOLEAN :
         /\ Call("fastboot.Unlock", "", "", ~err)
         /\ IF err THEN Exit(ErrorFastboot) ELSE pc' = "fastbootReboot" /\ code' = code
    /\ UNCHANGED <<exitStatus, env, locals, paths>>

\* fastboot.Reboot(): the result is discarded; then exit(SuccessBootloaderUnlocked).
UnlockReboot ==
    /\ pc = "fastbootReboot"
    /\ \E err \in BOOLEAN : Call("fastboot.Reboot", "", "", ~err)
    /\ Exit(SuccessBootloaderUnlocked)
    /\ UNCHANGED <<exitStatus, env, locals, paths>>

\* _, err = os.Stat(name): err is nil when the file is there.
FileExists(name, fs) == name \in fs

\* Variant: the download runs whether or not the file is there.
ShouldDownload_Always(name, fs) == TRUE

\* os.IsNotExist(err): the file is missing and has to be downloaded.
ShouldDownload(name, fs) == ~FileExists(name, fs)

\* Variant: the result of req.Download() is not checked.
DownloadFailed_Unchecked(err) == FALSE

\* if err != nil after req.Download()
DownloadFailed(err) == err

RequestNethunter ==
    /\ pc = "reqNethunter"
    /\ \E err \in BOOLEAN :
         /\ Call("remote.RequestNethunter", "", IF err THEN "" ELSE NethunterFilename, ~err)
         /\ IF err THEN Exit(ErrorRemote) /\ zip' = zip
            ELSE pc' = "fetchNethunter" /\ code' = code /\ zip' = NethunterFilename
    /\ UNCHANGED <<exitStatus, env, locals, twrp, oxygenrecovery, factory>>

\* zip := req.Filename was set by the request; os.Stat(zip) decides
\* whether req.Download() runs.
FetchNethunter ==
    /\ pc = "fetchNethunter"
    /\ IF ShouldDownload(zip, files)
          THEN \E err \in BOOLEAN :
                 /\ log' = log \o <<Entry("os.Stat", zip, "", FALSE),
                                    Entry("req.Download", zip, IF err THEN "" ELSE zip, ~err)>>
                 /\ IF DownloadFailed(err)
                       THEN /\ Exit(ErrorRemote)
                            /\ \E partial \in BOOLEAN :
                                 files' = IF partial THEN files \cup {zip} ELSE files
                       ELSE /\ pc' = "reqTWRP" /\ code' = code
                            /\ files' = files \cup {zip}
          ELSE /\ Call("os.Stat", zip, "", TRUE)
               /\ pc' = "reqTWRP" /\ code' = code
               /\ files' = files
    /\ UNCHANGED <<exitStatus, goos, runs, locals, paths>>

RequestTWRP ==
    /\ pc = "reqTWRP"
    /\ \E err \in BOOLEAN :
         /\ Call("remote.RequestTWRP", product, IF err THEN "" ELSE TWRPFilename(product), ~err)
         /\ IF err THEN Exit(ErrorRemote) /\ twrp' = twrp
            ELSE pc' = "fetchTWRP" /\ code' = code /\ twrp' = TWRPFilename(product)
    /\ UNCHANGED <<exitStatus, env, locals, zip, oxygenrecovery, factory>>

\* twrp := req.Filename was set by the request; os.Stat(twrp) decides
\* whether req.Download() runs.
FetchTWRP ==
    /\ pc = "fetchTWRP"
    /\ IF ShouldDownload(twrp, files)
          THEN \E err \in BOOLEAN :
                 /\ log' = log \o <<Entry("os.Stat", twrp, "", FALSE),
                                    Entry("req.Download", twrp, IF err THEN "" ELSE twrp, ~err)>>
                 /\ IF DownloadFailed(err)
                       THEN /\ Exit(ErrorRemote)
                            /\ \E partial \in BOOLEAN :
                                 files' = IF partial THEN files \cup {twrp} ELSE files
                       ELSE /\ pc' = "reqOxygen" /\ code' = code
                            /\ files' = files \cup {twrp}
          ELSE /\ Call("os.Stat", twrp, "", TRUE)
               /\ pc' = "reqOxygen" /\ code' = code
               /\ files' = files
    /\ UNCHANGED <<exitStatus, goos, runs, locals, paths>>

RequestOxygenRecovery ==
    /\ pc = "reqOxygen"
    /\ \E err \in BOOLEAN :
         /\ Call("remote.RequestOxygenRecovery", "", IF err THEN "" ELSE OxygenRecoveryFilename, ~err)
         /\ IF err THEN Exit(ErrorRemote) /\ oxygenrecovery' = oxygenrecovery
            ELSE pc' = "fetchOxygen" /\ code' = code /\ oxygenrecovery' = OxygenRecoveryFilename
    /\ UNCHANGED <<exitStatus, env, locals, zip, twrp, factory>>

\* oxygenrecovery := req.Filename was set by the request; os.Stat(twrp) decides
\* whether req.Download() runs.
\* The test looks at twrp, not at oxygenrecovery.
FetchOxygen ==
    /\ pc = "fetchOxygen"
    /\ IF ShouldDownload(twrp, files)
          THEN \E err \in BOOLEAN :
                 /\ log' = log \o <<Entry("os.Stat", twrp, "", FALSE),
                                    Entry("req.Download", oxygenrecovery, IF err THEN "" ELSE oxygenrecovery, ~err)>>
                 /\ IF DownloadFailed(err)
                       THEN /\ Exit(ErrorRemote)
                            /\ \E partial \in BOOLEAN :
                                 files' = IF partial THEN files \cup {oxygenrecovery} ELSE files
                       ELSE /\ pc' = "reqFactory" /\ code' = code
                            /\ files' = files \cup {oxygenrecovery}
          ELSE /\ Call("os.Stat", twrp, "", TRUE)
               /\ pc' = "reqFactory" /\ code' = code
               /\ files' = files
    /\ UNCHANGED <<exitStatus, goos, runs, locals, paths>>

RequestFactory ==
    /\ pc = "reqFactory"
    /\ \E err \in BOOLEAN :
         /\ Call("remote.RequestFactory", "", IF err THEN "" ELSE FactoryFilename, ~err)
         /\ IF err THEN Exit(ErrorRemote) /\ factory' = factory
            ELSE pc' = "fetchFactory" /\ code' = code /\ factory' = FactoryFilename
    /\ UNCHANGED <<exitStatus, env, locals, zip, twrp, oxygenrecovery>>

\* factory := req.Filename was set by the request; os.Stat(factory) decides
\* whether req.Download() runs.
FetchFactory ==
    /\ pc = "fetchFactory"
    /\ IF ShouldDownload(factory, files)
          THEN \E err \in BOOLEAN :
                 /\ log' = log \o <<Entry("os.Stat", factory, "", FALSE),
                                    Entry("req.Download", factory, IF err THEN "" ELSE factory, ~err)>>
                 /\ IF DownloadFailed(err)
                       THEN /\ Exit(ErrorRemote)
                            /\ \E partial \in BOOLEAN :
                                 files' = IF partial THEN files \cup {factory} ELSE files
                       ELSE /\ pc' = "bootOxygen" /\ code' = code
                            /\ files' = files \cup {factory}
          ELSE /\ Call("os.Stat", factory, "", TRUE)
               /\ pc' = "bootOxygen" /\ code' = code
               /\ files' = files
    /\ UNCHANGED <<exitStatus, goos, runs, locals, paths>>

\* Variant: data is wiped before dalvik.
WipeCommands_DataFirst == <<"twrp wipe cache", "twrp wipe data", "twrp wipe dalvik">>

\* The three recovery wipe commands, in the order main issues them.
WipeCommands == <<"twrp wipe cache", "twrp wipe dalvik", "twrp wipe data">>

\* err = fastboot.Boot(oxygenrecovery)
BootOxygenRecovery ==
    /\ pc = "bootOxygen"
    /\ \E err \in BOOLEAN :
         /\ Call("fastboot.Boot", oxygenrecovery, "", ~err)
         /\ IF err THEN Exit(ErrorTWRP) ELSE pc' = "promptSideload" /\ code' = code
    /\ UNCHANGED <<exitStatus, env, locals, paths>>

\* Variant: the sideload starts without waiting for the operator.
PromptSideload_Skipped ==
    /\ pc = "promptSideload"
    /\ pc' = "sideload"
    /\ UNCHANGED <<code, exitStatus, env, log, locals, paths>>

\* Press enter when in sideload mode
PromptSideload ==
    /\ pc = "promptSideload"
    /\ \E err \in BOOLEAN :
         /\ Call("reader.ReadLine", "sideload", "", ~err)
         /\ IF err THEN Exit(ErrorUserInput) ELSE pc' = "sideload" /\ code' = code
    /\ UNCHANGED <<exitStatus, env, locals, paths>>

SideloadFactory ==
    /\ pc = "sideload"
    /\ \E err \in BOOLEAN :
         /\ Call("adb.Sideload", factory, "", ~err)
         /\ IF err THEN Exit(ErrorTWRP) ELSE pc' = "promptFastboot" /\ code' = code
    /\ UNCHANGED <<exitStatus, env, locals, paths>>

\* Press return when in fastboot mode
PromptFastboot ==
    /\ pc = "promptFastboot"
    /\ \E err \in BOOLEAN :
         /\ Call("reader.ReadLine", "fastboot", "", ~err)
         /\ IF err THEN Exit(ErrorUserInput) ELSE pc' = "bootTWRP" /\ code' = code
    /\ UNCHANGED <<exitStatus, env, locals, paths>>

BootTWRP ==
    /\ pc = "bootTWRP"
    /\ \E err \in BOOLEAN :
         /\ Call("fastboot.Boot", twrp, "", ~err)
         /\ IF err THEN Exit(ErrorTWRP) ELSE pc' = "sleep10" /\ code' = code
    /\ UNCHANGED <<exitStatus, env, locals, paths>>

\* time.Sleep(10000 * time.Millisecond)
SettleWait ==
    /\ pc = "sleep10"
    /\ Call("time.Sleep", "10000", "", TRUE)
    /\ pc' = "push"
    /\ UNCHANGED <<code, exitStatus, env, locals, paths>>

\* Variant: a failing push exits with the recovery error code.
PushUpdate_ErrorTWRP ==
    /\ pc = "push"
    /\ \E err \in BOOLEAN :
         /\ Call("adb.PushFg", zip, "", ~err)
         /\ IF err THEN Exit(ErrorTWRP) ELSE pc' = "install" /\ code' = code
    /\ UNCHANGED <<exitStatus, env, locals, paths>>

\* adb.PushFg(zip, "/sdcard")
PushUpdate ==
    /\ pc = "push"
    /\ \E err \in BOOLEAN :
         /\ Call("adb.PushFg", zip, "", ~err)
         /\ IF err THEN Exit(ErrorAdb) ELSE pc' = "install" /\ code' = code
    /\ UNCHANGED <<exitStatus, env, locals, paths>>

InstallUpdate ==
    /\ pc = "install"
    /\ \E err \in BOOLEAN :
         /\ Call("adb.Shell", "twrp install /sdcard/" \o zip, "", ~err)
         /\ IF err THEN Exit(ErrorTWRP) ELSE pc' = "sleep2" /\ code' = code
    /\ UNCHANGED <<exitStatus, env, locals, paths>>

\* time.Sleep(2000 * time.Millisecond)
PauseAfterInstall ==
    /\ pc = "sleep2"
    /\ Call("time.Sleep", "2000", "", TRUE)
    /\ pc' = "wipeCache"
    /\ UNCHANGED <<code, exitStatus, env, locals, paths>>

WipeCache ==
    /\ pc = "wipeCache"
    /\ \E err \in BOOLEAN :
         /\ Call("adb.Shell", WipeCommands[1], "", ~err)
         /\ IF err THEN Exit(ErrorTWRP) ELSE pc' = "sleep1a" /\ code' = code
    /\ UNCHANGED <<exitStatus, env, locals, paths>>

\* time.Sleep(1000 * time.Millisecond)
PauseAfterCache ==
    /\ pc = "sleep1a"
    /\ Call("time.Sleep", "1000", "", TRUE)
    /\ pc' = "wipeDalvik"
    /\ UNCHANGED <<code, exitStatus, env, locals, paths>>

WipeDalvik ==
    /\ pc = "wipeDalvik"
    /\ \E err \in BOOLEAN :
         /\ Call("adb.Shell", WipeCommands[2], "", ~err)
         /\ IF err THEN Exit(ErrorTWRP) ELSE pc' = "sleep1b" /\ code' = code
    /\ UNCHANGED <<exitStatus, env, locals, paths>>

\* time.Sleep(1000 * time.Millisecond)
PauseAfterDalvik ==
    /\ pc = "sleep1b"
    /\ Call("time.Sleep", "1000", "", TRUE)
    /\ pc' = "wipeData"
    /\ UNCHANGED <<code, exitStatus, env, locals, paths>>

WipeData ==
    /\ pc = "wipeData"
    /\ \E err \in BOOLEAN :
         /\ Call("adb.Shell", WipeCommands[3], "", ~err)
         /\ IF err THEN Exit(ErrorTWRP) ELSE pc' = "sleep1c" /\ code' = code
    /\ UNCHANGED <<exitStatus, env, locals, paths>>

\* time.Sleep(1000 * time.Millisecond)
PauseAfterData ==
    /\ pc = "sleep1c"
    /\ Call("time.Sleep", "1000", "", TRUE)
    /\ pc' = "finalReboot"
    /\ UNCHANGED <<code, exitStatus, env, locals, paths>>

\* Variant: the result of the final reboot is not checked.
FinalReboot_AlwaysSuccess ==
    /\ pc = "finalReboot"
    /\ \E err \in BOOLEAN : Call("adb.Reboot", "", "", ~err)
    /\ Exit(Success)
    /\ UNCHANGED <<exitStatus, env, locals, paths>>

\* err = adb.Reboot(""); exit(ErrorAdb) on error, exit(Success) otherwise.
FinalReboot ==
    /\ pc = "finalReboot"
    /\ \E err \in BOOLEAN :
         /\ Call("adb.Reboot", "", "", ~err)
         /\ IF err THEN Exit(ErrorAdb) ELSE Exit(Success)
    /\ UNCHANGED <<exitStatus, env, locals, paths>>

\* Variant: on windows the pause before os.Exit never comes back.
ExitRoutine_PauseNeverReturns ==
    /\ pc = "exit"
    /\ IF goos = "windows"
          THEN UNCHANGED <<pc, exitStatus, log>>
          ELSE pc' = "done" /\ exitStatus' = code /\ log' = log
    /\ UNCHANGED <<code, env, locals, paths>>

\* exit(): on windows wait for a line (whatever ReadLine returns is dropped),
\* then os.Exit(code).
ExitRoutine ==
    /\ pc = "exit"
    /\ IF goos = "windows"
          THEN Call("reader.ReadLine", "exit", "", TRUE)
          ELSE log' = log
    /\ pc' = "done"
    /\ exitStatus' = code
    /\ UNCHANGED <<code, env, locals, paths>>

\* The operator invokes the tool again in the same working directory.
Restart ==
    /\ pc = "done"
    /\ runs < MaxRuns
    /\ runs' = runs + 1
    /\ pc' = "main"
    /\ code' = NoCode
    /\ exitStatus' = NoCode
    /\ log' = <<>>
    /\ status' = ""
    /\ product' = ""
    /\ unlocked' = FALSE
    /\ zip' = ""
    /\ twrp' = ""
    /\ oxygenrecovery' = ""
    /\ factory' = ""
    /\ UNCHANGED <<goos, files>>

Next ==
    \/ ParseFlags
    \/ Executable
    \/ Setenv
    \/ Chdir
    \/ AwaitUserConsent
    \/ VerifyAdbTool
    \/ VerifyFastbootTool
    \/ DetectDeviceMode
    \/ verifyAdbStatusOrAbort
    \/ RebootToBootloader
    \/ GraceWait
    \/ Reprobe
    \/ verifyFastbootStatusOrAbort
    \/ IdentifyDevice
    \/ QueryUnlocked
    \/ Unlock
    \/ UnlockReboot
    \/ RequestNethunter
    \/ FetchNethunter
    \/ RequestTWRP
    \/ FetchTWRP
    \/ RequestOxygenRecovery
    \/ FetchOxygen
    \/ RequestFactory
    \/ FetchFactory
    \/ BootOxygenRecovery
    \/ PromptSideload
    \/ SideloadFactory
    \/ PromptFastboot
    \/ BootTWRP
    \/ SettleWait
    \/ PushUpdate
    \/ InstallUpdate
    \/ PauseAfterInstall
    \/ WipeCache
    \/ PauseAfterCache
    \/ WipeDalvik
    \/ PauseAfterDalvik
    \/ WipeData
    \/ PauseAfterData
    \/ FinalReboot
    \/ ExitRoutine
    \/ Restart

Spec == Init /\ [][Next]_vars

\* A step of the running program (not the operator starting it again).
RunStep == Next /\ runs' = runs

\* Every call returns, every wait elapses and every prompt gets a line: the
\* single thread of main always takes its next step.
FairSpec == Spec /\ WF_vars(RunStep)
\* ========================================================== trace helpers
Idx == DOMAIN log

IsOp(i, o) == log[i].op = o
Count(o) == Cardinality({i \in Idx : IsOp(i, o)})
CountArg(o, a) == Cardinality({i \in Idx : IsOp(i, o) /\ log[i].arg = a})

AdbOps == {"adb.Status", "adb.Reboot", "adb.Sideload", "adb.PushFg", "adb.Shell"}
FastbootOps == {"fastboot.Status", "fastboot.GetProduct", "fastboot.Unlocked",
                "fastboot.Unlock", "fastboot.Reboot", "fastboot.Boot"}
RequestOps == {"remote.RequestNethunter", "remote.RequestTWRP",
               "remote.RequestOxygenRecovery", "remote.RequestFactory"}
FetchOps == RequestOps \cup {"req.Download"}
\* boot, sideload, push, install and wipe commands
FlashOps == {"fastboot.Boot", "adb.Sideload", "adb.PushFg", "adb.Shell"}

Terminal == pc \in {"exit", "done"}
\* The run leaves through exit(c) and, once the process is gone, with status c.
ExitsWith(c) == Terminal /\ code = c /\ (pc = "done" => exitStatus = c)

LockQueryReturned(r) == \E i \in Idx : IsOp(i, "fastboot.Unlocked") /\ log[i].ret = r
NoFetchOrFlash == \A i \in Idx : log[i].op \notin FetchOps \cup FlashOps

\* ==================================================================== C1
\* C1 (as stated): whenever the lock-state query reports locked, a finished
\* run has called unlock() exactly once, then reboot() exactly once, and has
\* exited with SuccessBootloaderUnlocked, with no fetch and no flash command.
C1_LockedAlwaysUnlocksAndReboots ==
    (pc = "done" /\ LockQueryReturned("locked")) =>
        /\ Count("fastboot.Unlock") = 1
        /\ Count("fastboot.Reboot") = 1
        /\ \A i, j \in Idx : IsOp(i, "fastboot.Unlock") /\ IsOp(j, "fastboot.Reboot") => i < j
        /\ exitStatus = SuccessBootloaderUnlocked
        /\ NoFetchOrFlash

\* C1 (amended): when the lock-state query reports locked, no artifact is
\* requested or downloaded and no boot, sideload, push, install or wipe
\* command is issued; a finished run has called unlock() exactly once; if
\* that unlock() succeeded it is followed by exactly one reboot() and the
\* exit code is SuccessBootloaderUnlocked, and if it failed there is no
\* reboot() and the exit code is ErrorFastboot.
C1_LockedUnlocksThenRebootsUnlessUnlockFails ==
    LockQueryReturned("locked") =>
        /\ NoFetchOrFlash
        /\ Count("fastboot.Unlock") <= 1
        /\ Count("fastboot.Reboot") <= 1
        /\ \A j \in Idx : IsOp(j, "fastboot.Reboot") =>
               j > 1 /\ IsOp(j - 1, "fastboot.Unlock") /\ log[j - 1].ok
        /\ pc = "done" =>
               /\ Count("fastboot.Unlock") = 1
               /\ \A i \in Idx : IsOp(i, "fastboot.Unlock") =>
                    IF log[i].ok
                       THEN Count("fastboot.Reboot") = 1
                            /\ exitStatus = SuccessBootloaderUnlocked
                       ELSE Count("fastboot.Reboot") = 0
                            /\ exitStatus = ErrorFastboot

C1_Witness ==
    /\ pc = "done"
    /\ LockQueryReturned("locked")
    /\ Count("fastboot.Unlock") = 1
    /\ Count("fastboot.Reboot") = 1
    /\ exitStatus = SuccessBootloaderUnlocked

\* ==================================================================== C2
\* C2: in a run in which the lock-state query reports unlocked, fastboot
\* unlock() and fastboot reboot() are never called.
C2_UnlockedNeverUnlocksOrReboots ==
    LockQueryReturned("unlocked") =>
        Count("fastboot.Unlock") = 0 /\ Count("fastboot.Reboot") = 0

C2_Witness ==
    /\ pc = "done"
    /\ exitStatus = Success
    /\ LockQueryReturned("unlocked")
    /\ CountArg("adb.Reboot", "") = 1

\* ==================================================================== C3
ConsentLine(l) ==
    \E i \in Idx : IsOp(i, "reader.ReadLine") /\ log[i].arg = "consent"
                   /\ log[i].ok /\ log[i].ret = l

\* C3: a consent line other than exactly "yes" ends the run with exit code
\* 33, and the run makes no adb call, no fastboot call and no download
\* request.
C3_DeclinedConsentAbortsWithoutCalls ==
    LET calls == AdbOps \cup FastbootOps \cup FetchOps IN
    \A l \in Lines \ {"yes"} :
        ConsentLine(l) =>
            /\ ExitsWith(33)
            /\ \A i \in Idx : log[i].op \notin calls

C3_Witness ==
    /\ pc = "done"
    /\ exitStatus = 33
    /\ ConsentLine("yes ")

\* ==================================================================== C4
FetchFailedAt(i) == log[i].op \in FetchOps /\ ~log[i].ok

\* A file the fetch phase has resolved: seen by os.Stat or downloaded.
ObtainedAt(i) == (IsOp(i, "os.Stat") \/ IsOp(i, "req.Download")) /\ log[i].ok

\* C4: when the request or the download of an artifact fails, the run ends
\* with ErrorRemote, nothing is requested or downloaded afterwards, no boot,
\* sideload, push, install or wipe command is issued, and the files of the
\* artifacts obtained before are still in the working directory.
C4_FetchFailureIsFatal ==
    \A i \in Idx : FetchFailedAt(i) =>
        /\ ExitsWith(ErrorRemote)
        /\ \A j \in Idx : j > i => IsOp(j, "reader.ReadLine") /\ log[j].arg = "exit"
        /\ \A j \in Idx : log[j].op \notin FlashOps
        /\ \A j \in Idx : ObtainedAt(j) => log[j].arg \in files

\* The download of the second artifact fails after the first was downloaded.
C4_Witness ==
    /\ pc = "done"
    /\ exitStatus = ErrorRemote
    /\ \E i, j \in Idx :
         /\ i < j
         /\ IsOp(i, "req.Download") /\ log[i].ok /\ log[i].arg = NethunterFilename
         /\ IsOp(j, "req.Download") /\ ~log[j].ok /\ log[j].arg = twrp
    /\ NethunterFilename \in files
    /\ Count("remote.RequestOxygenRecovery") = 0
    /\ Count("remote.RequestFactory") = 0

\* ==================================================================== C5
IsWipe(i, k) == IsOp(i, "adb.Shell") /\ log[i].arg = WipeCommands[k]
IsFinalReboot(i) == IsOp(i, "adb.Reboot") /\ log[i].arg = ""

\* C5: the wipes are issued in the order cache, dalvik, data, each at most
\* once and each only after the previous one succeeded; a failing wipe ends
\* the run with ErrorTWRP and is followed by no wipe and no final reboot.
C5_WipeOrder ==
    /\ WipeCommands = <<"twrp wipe cache", "twrp wipe dalvik", "twrp wipe data">>
    /\ LET wipes == [k \in 1..3 |-> {i \in Idx : IsWipe(i, k)}] IN
         /\ \A k \in 1..3 : Cardinality(wipes[k]) <= 1
         /\ \A k \in 2..3 : \A i \in wipes[k] :
                \E j \in wipes[k - 1] : j < i /\ log[j].ok
         /\ \A k \in 1..3 : \A i \in wipes[k] : ~log[i].ok =>
                /\ ExitsWith(ErrorTWRP)
                /\ \A j \in Idx : j > i =>
                       ~IsOp(j, "adb.Shell") /\ ~IsFinalReboot(j)

C5_Witness ==
    /\ pc = "done"
    /\ exitStatus = ErrorTWRP
    /\ \E i, j \in Idx : i < j /\ IsWipe(i, 1) /\ log[i].ok /\ IsWipe(j, 2) /\ ~log[j].ok
    /\ \A i \in Idx : ~IsWipe(i, 3) /\ ~IsFinalReboot(i)
\* ==================================================================== C6
IsDetect(i)    == IsOp(i, "fastboot.Status") /\ log[i].arg = "detect"
IsAdbVerify(i) == IsOp(i, "adb.Status") /\ log[i].arg = "verify"
IsBootloaderReboot(i) == IsOp(i, "adb.Reboot") /\ log[i].arg = "bootloader"
IsFastbootVerify(i)   == IsOp(i, "fastboot.Status") /\ log[i].arg = "verify"
NoBootloaderReboot == \A i \in Idx : ~IsBootloaderReboot(i)
\* Nothing but the pause of exit() follows entry i.
LastCall(i) == \A j \in Idx : j > i => IsOp(j, "reader.ReadLine") /\ log[j].arg = "exit"
\* The run has just made call i, or went on with a call satisfying Then.
FollowedBy(i, here, Then(_)) ==
    IF i = Len(log) THEN pc = here ELSE Then(i + 1)

\* The verdicts on the adb probe, common to both forms of C6.
C6_AdbBranches ==
    \A i \in Idx : (IsAdbVerify(i) /\ log[i].ok) =>
        /\ log[i].ret \in {NoDeviceFound, DeviceUnauthorized} =>
               ExitsWith(ErrorAdb) /\ LastCall(i)
        /\ log[i].ret = NoUsbPerms => ExitsWith(ErrorUsbPerms) /\ LastCall(i)
        /\ log[i].ret = DeviceConnected =>
               FollowedBy(i, "rebootBootloader", IsBootloaderReboot)

\* C6 (as stated): a run reaches VerifyFastbootReady without adb
\* reboot("bootloader") only when the probe of DetectDeviceMode reported
\* FastbootReady; NoDevice and AdbUnauthorized end in ErrorAdb,
\* UsbPermissionDenied in ErrorUsbPerms, AdbReady goes on to the reboot.
C6_OnlyFastbootReadySkipsReboot ==
    /\ (pc = "verifyFastboot" /\ NoBootloaderReboot) =>
           \E i \in Idx : IsDetect(i) /\ log[i].ret = DeviceConnected
    /\ C6_AdbBranches

\* C6 (amended): the run reaches VerifyFastbootReady without adb
\* reboot("bootloader") exactly when the fastboot probe of DetectDeviceMode
\* returned a status other than NoDevice (FastbootReady or
\* UsbPermissionDenied), and then no adb probe is made; when it returned
\* NoDevice the adb probe decides: NoDevice, AdbUnauthorized or a probe
\* error end in ErrorAdb, UsbPermissionDenied in ErrorUsbPerms, and AdbReady
\* goes on to adb reboot("bootloader").
C6_EveryStatusButNoDeviceSkipsReboot ==
    /\ \A i \in Idx : IsDetect(i) =>
         IF log[i].ret = NoDeviceFound
            THEN FollowedBy(i, "verifyAdb", IsAdbVerify)
            ELSE /\ FollowedBy(i, "verifyFastboot", IsFastbootVerify)
                 /\ NoBootloaderReboot
                 /\ \A j \in Idx : ~IsAdbVerify(j)
    /\ (pc = "verifyFastboot" /\ NoBootloaderReboot) =>
           \E i \in Idx : IsDetect(i) /\ log[i].ret \in {DeviceConnected, NoUsbPerms}
    /\ \A i \in Idx : (IsAdbVerify(i) /\ ~log[i].ok) => ExitsWith(ErrorAdb) /\ LastCall(i)
    /\ C6_AdbBranches

C6_Witness ==
    /\ pc = "verifyFastboot"
    /\ NoBootloaderReboot
    /\ \E i \in Idx : IsDetect(i) /\ log[i].ok /\ log[i].ret = NoUsbPerms

\* ==================================================================== C7
IsReprobe(i)   == IsOp(i, "fastboot.Status") /\ log[i].arg = "reprobe"
IsGraceWait(i) == IsOp(i, "time.Sleep") /\ log[i].arg = "7000"

C7_AtMostOnce ==
    /\ CountArg("adb.Reboot", "bootloader") <= 1
    /\ CountArg("time.Sleep", "7000") <= 1
    /\ CountArg("fastboot.Status", "reprobe") <= 1
    /\ \A i \in Idx : IsReprobe(i) =>
           /\ i > 2
           /\ IsGraceWait(i - 1)
           /\ IsBootloaderReboot(i - 2) /\ log[i - 2].ok

\* C7 (as stated): a re-probe after the reboot and the grace wait that
\* reports anything but FastbootReady ends the run with ErrorAdb; reboot
\* and wait happen at most once.
C7_ReprobeNotReadyIsErrorAdb ==
    /\ \A i \in Idx : (IsReprobe(i) /\ (~log[i].ok \/ log[i].ret # DeviceConnected)) =>
           ExitsWith(ErrorAdb)
    /\ C7_AtMostOnce

\* C7 (amended): a re-probe that fails or reports NoDevice ends the run
\* with ErrorAdb; a re-probe that reports UsbPermissionDenied or
\* FastbootReady goes on to the probe of VerifyFastbootReady; a failing adb
\* reboot("bootloader") ends the run with ErrorAdb without the wait; reboot,
\* wait and re-probe happen at most once.
C7_ReprobeFailedOrNoDeviceIsErrorAdb ==
    /\ \A i \in Idx : IsReprobe(i) =>
         IF ~log[i].ok \/ log[i].ret = NoDeviceFound
            THEN ExitsWith(ErrorAdb) /\ LastCall(i)
            ELSE FollowedBy(i, "verifyFastboot", IsFastbootVerify)
    /\ \A i \in Idx : (IsBootloaderReboot(i) /\ ~log[i].ok) =>
           ExitsWith(ErrorAdb) /\ LastCall(i)
    /\ C7_AtMostOnce

C7_Witness ==
    /\ pc = "verifyFastboot"
    /\ \E i \in Idx : IsReprobe(i) /\ log[i].ok /\ log[i].ret = NoUsbPerms

\* ==================================================================== C8
DocumentedCodes == {0, 33, 34, 65, 66, 67, 68, 69, 70, 71}

\* C8: a terminated run has left the process with one of the documented
\* exit codes.
C8_ExitCodeTotality == pc = "done" => exitStatus \in DocumentedCodes

\* ==================================================================== C9
\* C9: the device handed to the recovery-image request is "cheeseburger"
\* when getProduct() returned "QC_Reference_Phone", and the returned product
\* otherwise; url and filename of the request are those of that device.
C9_AliasCanonicalized ==
    \A i \in Idx : IsOp(i, "remote.RequestTWRP") =>
        \E g \in Idx :
            /\ IsOp(g, "fastboot.GetProduct") /\ log[g].ok
            /\ LET device == IF log[g].ret = "QC_Reference_Phone"
                                THEN "cheeseburger" ELSE log[g].ret
               IN  /\ log[i].arg = device
                   /\ log[i].ok => twrp = TWRPFilename(device)

\* =================================================================== C10
\* No download in this step: the directory is as it was and no Download
\* call was added to the trace.
NoDownloadStep ==
    /\ files' = files
    /\ \A i \in DOMAIN log' : i > Len(log) => log'[i].op # "req.Download"

IsModeProbe(i) == IsDetect(i) \/ IsAdbVerify(i) \/ IsReprobe(i) \/ IsFastbootVerify(i)

\* C11: a device-mode probe that returns an error ends the run where it was
\* made: the run is in exit() and no further call follows the probe.
C11_ProbeErrorIsFatal ==
    \A i \in Idx : (IsModeProbe(i) /\ ~log[i].ok) => Terminal /\ LastCall(i)

\* =================================================================== C12
ConsoleOps == {"reader.ReadLine"}
IsExitPause(i) == IsOp(i, "reader.ReadLine") /\ log[i].arg = "exit"

\* C12: a failing device command, download or console read either ends the
\* run at once (exit() is entered and no further call follows) or is the
\* lock-state query, the one advisory error after which the run goes on.
C12_ErrorsFatalOrAdvisory ==
    \A i \in Idx :
        (log[i].op \in AdbOps \cup FastbootOps \cup FetchOps \cup ConsoleOps
         /\ ~IsExitPause(i) /\ ~log[i].ok) =>
            \/ Terminal /\ LastCall(i)
            \/ IsOp(i, "fastboot.Unlocked")

\* =================================================================== C13
\* C13: a failing lock-state query does not end the run and does not lead
\* to unlock(): the run goes on to the first artifact request.
C13_LockQueryFailureIsOptimistic ==
    \A i \in Idx : (IsOp(i, "fastboot.Unlocked") /\ ~log[i].ok) =>
        /\ Count("fastboot.Unlock") = 0
        /\ IF i = Len(log) THEN pc = "reqNethunter"
                           ELSE IsOp(i + 1, "remote.RequestNethunter")
\* =================================================================== C14
\* The statements of main in program order, then exit() and the end.
PcOrder ==
    << "main", "executable", "setenv", "chdir", "consent",
       "verifyAdbTool", "verifyFastbootTool", "detect", "verifyAdb",
       "rebootBootloader", "sleep7", "reprobe", "verifyFastboot", "getProduct",
       "unlocked", "unlock", "fastbootReboot",
       "reqNethunter", "fetchNethunter", "reqTWRP", "fetchTWRP",
       "reqOxygen", "fetchOxygen", "reqFactory", "fetchFactory",
       "bootOxygen", "promptSideload", "sideload",
       "promptFastboot", "bootTWRP", "sleep10", "push", "install",
       "sleep2", "wipeCache", "sleep1a", "wipeDalvik", "sleep1b", "wipeData", "sleep1c",
       "finalReboot", "exit", "done" >>

Rank(p) == CHOOSE k \in 1..Len(PcOrder) : PcOrder[k] = p

\* The installation phase (1..12) a statement belongs to; 0 before the
\* consent prompt, 13 for exit() and after.
PhaseOf(p) ==
    LET r == Rank(p) IN
    IF r < Rank("consent") THEN 0
    ELSE IF r < Rank("verifyAdbTool") THEN 1
    ELSE IF r < Rank("detect") THEN 2
    ELSE IF r < Rank("rebootBootloader") THEN 3
    ELSE IF r < Rank("verifyFastboot") THEN 4
    ELSE IF r < Rank("getProduct") THEN 5
    ELSE IF r < Rank("unlocked") THEN 6
    ELSE IF r < Rank("reqNethunter") THEN 7
    ELSE IF r < Rank("bootOxygen") THEN 8
    ELSE IF r < Rank("promptFastboot") THEN 9
    ELSE IF r < Rank("sleep2") THEN 10
    ELSE IF r < Rank("finalReboot") THEN 11
    ELSE IF r < Rank("exit") THEN 12
    ELSE 13

\* The calls a step adds to the trace.
NewCalls == {log'[i] : i \in (DOMAIN log') \ (DOMAIN log)}

\* C14: within a run control only moves forward, so the phases are entered
\* in increasing order and none twice; the exit code is set at most once,
\* and once exit() has been entered the only thing left is the end of the
\* process with that code: no device command, no download, no other step.
C14_SinglePass ==
    [][ runs' = runs =>
          /\ pc \in {PcOrder[k] : k \in 1..Len(PcOrder)}
          /\ Rank(pc') > Rank(pc)
          /\ PhaseOf(pc') >= PhaseOf(pc)
          /\ code # NoCode => code' = code
          /\ pc = "exit" =>
                /\ pc' = "done"
                /\ exitStatus' = code
                /\ \A e \in NewCalls :
                     e.op \notin AdbOps \cup FastbootOps \cup FetchOps
      ]_vars

\* A run that went through every phase, the reboot to the bootloader included.
C14_Witness ==
    /\ pc = "done"
    /\ exitStatus = Success
    /\ ~NoBootloaderReboot
    /\ \E i \in Idx : IsFinalReboot(i) /\ log[i].ok
\* =================================================================== C15
NeedsFastboot == {"fastboot.GetProduct", "fastboot.Unlocked", "fastboot.Unlock", "fastboot.Boot"}

\* C15: getProduct(), unlocked(), unlock() and boot() come only after the
\* probe of VerifyFastbootReady returned, without error, a mode that is
\* neither NoDevice nor UsbPermissionDenied, and that probe follows any
\* reboot to the bootloader; in VerifyFastbootReady NoDevice ends the run
\* with ErrorFastboot and UsbPermissionDenied with ErrorUsbPerms.
C15_FastbootCommandsAfterVerify ==
    /\ LET reboots  == {r \in Idx : IsBootloaderReboot(r)}
           verified == {j \in Idx : /\ IsFastbootVerify(j) /\ log[j].ok
                                    /\ log[j].ret \notin {NoDeviceFound, NoUsbPerms}
                                    /\ \A r \in reboots : r < j}
       IN  \A i \in Idx : log[i].op \in NeedsFastboot =>
               \E j \in verified : j < i
    /\ \A j \in Idx : (IsFastbootVerify(j) /\ log[j].ok) =>
           /\ log[j].ret = NoDeviceFound => ExitsWith(ErrorFastboot) /\ LastCall(j)
           /\ log[j].ret = NoUsbPerms => ExitsWith(ErrorUsbPerms) /\ LastCall(j)

C15_Witness ==
    /\ pc = "done"
    /\ exitStatus = ErrorUsbPerms
    /\ ~NoBootloaderReboot
    /\ \E j \in Idx : IsFastbootVerify(j) /\ log[j].ok /\ log[j].ret = NoUsbPerms

\* =================================================================== C16
\* The calls of the flash phases up to the first wipe, as <<op, arg>>.
FlashPlan ==
    << <<"fastboot.Boot", OxygenRecoveryFilename>>,
       <<"reader.ReadLine", "sideload">>,
       <<"adb.Sideload", FactoryFilename>>,
       <<"reader.ReadLine", "fastboot">>,
       <<"fastboot.Boot", TWRPFilename(product)>>,
       <<"time.Sleep", "10000">>,
       <<"adb.PushFg", NethunterFilename>>,
       <<"adb.Shell", "twrp install /sdcard/" \o NethunterFilename>>,
       <<"time.Sleep", "2000">>,
       <<"adb.Shell", "twrp wipe cache">> >>

FirstBoot == {i \in Idx : IsOp(i, "fastboot.Boot")
                          /\ \A j \in Idx : j < i => ~IsOp(j, "fastboot.Boot")}

\* C16: from the boot of the OxygenOS recovery on, the trace follows the
\* plan step by step (boot A, Enter, sideload, return, boot B, 10 s wait,
\* push, install, pause, first wipe), each step only after the one before
\* succeeded, and no flash command or operator prompt comes before boot A.
C16_FlashOrder ==
    LET first == FirstBoot
        plan  == FlashPlan
    IN  /\ \A b \in first : \A k \in 1..10 :
               (b + k - 1 \in Idx /\ ~IsExitPause(b + k - 1)) =>
                   /\ log[b + k - 1].op = plan[k][1]
                   /\ log[b + k - 1].arg = plan[k][2]
                   /\ k > 1 => log[b + k - 2].ok
        /\ \A i \in Idx :
               (log[i].op \in FlashOps
                \/ (IsOp(i, "reader.ReadLine") /\ log[i].arg \in {"sideload", "fastboot"})) =>
                   \E b \in first : b <= i

C16_Witness ==
    /\ \E i \in Idx : IsWipe(i, 1) /\ i = Len(log)
    /\ \E i \in Idx : IsOp(i, "adb.Shell") /\ log[i].ok
                      /\ log[i].arg = "twrp install /sdcard/" \o zip

\* =================================================================== C17
FailedCall(i, o, a) == IsOp(i, o) /\ log[i].arg = a /\ ~log[i].ok

\* C17: a failing boot of either recovery, a failing sideload and a
\* failing install end the run with ErrorTWRP, a failing push with
\* ErrorAdb, and no call follows the failing one.
C17_FlashFailureCodes ==
    LET install == "twrp install /sdcard/" \o zip IN
    \A i \in Idx : ~log[i].ok =>
        /\ FailedCall(i, "fastboot.Boot", oxygenrecovery) => ExitsWith(71) /\ LastCall(i)
        /\ FailedCall(i, "adb.Sideload", factory) => ExitsWith(71) /\ LastCall(i)
        /\ FailedCall(i, "fastboot.Boot", twrp) => ExitsWith(71) /\ LastCall(i)
        /\ FailedCall(i, "adb.PushFg", zip) => ExitsWith(68) /\ LastCall(i)
        /\ FailedCall(i, "adb.Shell", install) => ExitsWith(71) /\ LastCall(i)

C17_Witness ==
    /\ pc = "done"
    /\ exitStatus = ErrorAdb
    /\ \E i \in Idx : FailedCall(i, "adb.PushFg", zip)

\* =================================================================== C18
OkCall(o, a) == \E i \in Idx : IsOp(i, o) /\ log[i].arg = a /\ log[i].ok

\* The run left at the --version flag: it made no call but the exit pause.
VersionPath == \A i \in Idx : IsExitPause(i)

FullInstall ==
    /\ LockQueryReturned("unlocked")
    /\ \A o \in RequestOps : \E i \in Idx : IsOp(i, o) /\ log[i].ok
    /\ Count("os.Stat") = 4
    /\ \A i \in Idx : IsOp(i, "req.Download") => log[i].ok
    /\ OkCall("fastboot.Boot", oxygenrecovery)
    /\ OkCall("adb.Sideload", factory)
    /\ OkCall("fastboot.Boot", twrp)
    /\ OkCall("adb.PushFg", zip)
    /\ OkCall("adb.Shell", "twrp install /sdcard/" \o zip)
    /\ \A k \in 1..3 : OkCall("adb.Shell", WipeCommands[k])
    /\ OkCall("adb.Reboot", "")

\* C18: exit code 0 comes only from the --version path or from a run with
\* an unlocked device in which every fetch, boot, sideload, push, install,
\* wipe and the final reboot succeeded; a failing final reboot gives
\* ErrorAdb.
C18_SuccessOnlyAfterFullInstall ==
    /\ (Terminal /\ code = 0) => VersionPath \/ FullInstall
    /\ (pc = "done" /\ exitStatus = 0) => VersionPath \/ FullInstall
    /\ \A i \in Idx : (IsFinalReboot(i) /\ ~log[i].ok) => ExitsWith(68)

C18_Witness ==
    /\ pc = "done"
    /\ exitStatus = 0
    /\ FullInstall
    /\ ~VersionPath
\* =================================================================== C19
\* C19: the path handed to boot, sideload or push names a file that is in
\* the working directory at that moment.
C19_FlashedFilesArePresent ==
    \A i \in Idx :
        (log[i].op \in {"fastboot.Boot", "adb.Sideload", "adb.PushFg"} /\ i = Len(log)) =>
            log[i].arg \in files

\* =================================================================== C20
\* C20: when every call returns, every wait elapses and every prompt gets
\* its line, a run that has started reaches the end of the process.
C20_Terminates == (pc # "done") ~> (pc = "done" /\ exitStatus # NoCode)

\* The last run has ended after the whole installation.
C20_Witness ==
    /\ pc = "done"
    /\ runs = MaxRuns
    /\ exitStatus \in {Success, ErrorAdb}
    /\ \E i \in Idx : IsFinalReboot(i)
====
